---------------------------- MODULE Spec2Model ----------------------------
(***************************************************************************)
(* A model of package uuid (mdigger/uuid, src/uuid.go): the 16-byte UUID   *)
(* value type, its generation, its text, binary, BSON and SQL encodings.   *)
(*                                                                         *)
(* A byte is a number in 0..255.  A Go array or string is a sequence of    *)
(* bytes; Go index i is index i+1 here.  A Go byte slice is a record       *)
(* [arr, len]: arr is the backing array from the slice's first element to  *)
(* its capacity, len the slice's length (len <= Len(arr) = cap).  Text is  *)
(* bytes too: a character is its ASCII code.                               *)
(***************************************************************************)
EXTENDS Integers, Sequences, FiniteSets, TLC

---------------------------------------------------------------------------
(* Bytes and bit operations.                                               *)

RECURSIVE BitAnd(_, _)
\* Go's x & y on non-negative integers.
BitAnd(x, y) ==
    IF x = 0 \/ y = 0 THEN 0
    ELSE (x % 2) * (y % 2) + 2 * BitAnd(x \div 2, y \div 2)

RECURSIVE BitOr(_, _)
\* Go's x | y on non-negative integers.
BitOr(x, y) ==
    IF x = 0 THEN y
    ELSE IF y = 0 THEN x
    ELSE (IF x % 2 = 1 \/ y % 2 = 1 THEN 1 ELSE 0)
         + 2 * BitOr(x \div 2, y \div 2)

\* Go's x >> n on a byte.
ShiftRight(x, n) == x \div (2 ^ n)

\* type UUID [16]byte: its zero value.
ZeroUUID == [i \in 1 .. 16 |-> 0]

---------------------------------------------------------------------------
(* Byte slices.                                                            *)

\* A slice over a fresh array holding exactly the bytes s (len = cap).
SliceOf(s) == [arr |-> s, len |-> Len(s)]

\* cap(s)
Cap(s) == Len(s.arr)

\* The elements of the slice, s[0:len(s)].
Elems(s) == SubSeq(s.arr, 1, s.len)

\* s[n:] for 0 <= n <= len(s); Go panics when n > len(s).
SliceFrom(s, n) == [arr |-> SubSeq(s.arr, n + 1, Len(s.arr)), len |-> s.len - n]

\* s[:n] for 0 <= n <= cap(s); Go panics when n > cap(s).
SliceTo(s, n) == [arr |-> s.arr, len |-> n]

\* []byte(str): a fresh array of the runtime's choice of capacity
\* len(str) + spare, the spare bytes zeroed.
StringToBytes(str, spare) ==
    [arr |-> str \o [i \in 1 .. spare |-> 0], len |-> Len(str)]

---------------------------------------------------------------------------
(* encoding/hex and fmt's %x, as called by String and UnmarshalText.       *)

\* fmt's %x digit of a nibble: "0123456789abcdef"[n].
HexDigit(n) == IF n < 10 THEN 48 + n ELSE 87 + n

RECURSIVE EncodeHex(_)
\* fmt.Sprintf("%x", b) of a byte slice b: two lowercase digits a byte.
EncodeHex(b) ==
    IF b = << >> THEN << >>
    ELSE << HexDigit(ShiftRight(b[1], 4)), HexDigit(BitAnd(b[1], 15)) >>
         \o EncodeHex(Tail(b))

\* hex's table of digit values: 0..15 for 0-9, a-f, A-F and 255 otherwise.
FromHexChar(c) ==
    IF c >= 48 /\ c <= 57 THEN c - 48
    ELSE IF c >= 97 /\ c <= 102 THEN c - 97 + 10
    ELSE IF c >= 65 /\ c <= 70 THEN c - 65 + 10
    ELSE 255

RECURSIVE HexDecodeFrom(_, _, _, _)
\* The loop of hex.Decode(dst, src) from pair i on, where dst is
\* u[off : off+len(src)/2]: each pair is checked and then stored, so the
\* pairs before a bad one are stored.  n counts the bytes stored.
HexDecodeFrom(u, off, src, i) ==
    IF 2 * i + 1 >= src.len THEN [err |-> "nil", u |-> u, n |-> i]
    ELSE LET a == FromHexChar(src.arr[2 * i + 1])
             b == FromHexChar(src.arr[2 * i + 2])
         IN  IF a > 15 \/ b > 15 THEN [err |-> "hex", u |-> u, n |-> i]
             ELSE HexDecodeFrom([u EXCEPT ![off + i + 1] = BitOr(a * 16, b)],
                                off, src, i + 1)

\* A hex.Decode that checks all of src before it stores any byte.
HexDecodeAtomic(u, off, src) ==
    LET r == HexDecodeFrom(u, off, src, 0) IN
    IF r.err = "nil" THEN r ELSE [err |-> "hex", u |-> u, n |-> 0]

\* hex.Decode(b[:len(src)/2], src) with b = u[off:].
HexDecode(u, off, src) == HexDecodeFrom(u, off, src, 0)

---------------------------------------------------------------------------
(* The UUID's functions.                                                   *)

\* A New that sets the variant bits with the version's constant.
NewWrongVariant(d) ==
    [d EXCEPT ![7] = BitOr(BitAnd(d[7], 15), 64),
              ![9] = BitOr(BitAnd(d[9], 63), 64)]

\* New, given the 16 bytes d read from rand.Reader.
New(d) ==
    [d EXCEPT ![7] = BitOr(BitAnd(d[7], 15), 64),
              ![9] = BitOr(BitAnd(d[9], 63), 128)]

\* bytes.Equal(u[:], uuid[:])
Equal(u, uuid) == \A i \in 1 .. 16 : u[i] = uuid[i]

\* uint(u[6] >> 4)
Version(u) == ShiftRight(u[7], 4)

\* A Bytes with a pointer receiver: its slice points into the caller's UUID.
BytesOfCaller(u) == [ptr |-> "uuid", len |-> 16, cap |-> 16]

\* u[:] of the receiver: a slice of all 16 bytes, len = cap = 16.  The
\* receiver is a copy of the caller's UUID (a value receiver), so the array
\* the slice points to is "copy", not the caller's "uuid".
Bytes(u) == [ptr |-> "copy", len |-> 16, cap |-> 16]

\* A String whose last group starts one byte late, u[11:].
StringShortGroup(u) ==
    EncodeHex(SubSeq(u, 1, 4)) \o << 45 >> \o EncodeHex(SubSeq(u, 5, 6))
    \o << 45 >> \o EncodeHex(SubSeq(u, 7, 8)) \o << 45 >>
    \o EncodeHex(SubSeq(u, 9, 10)) \o << 45 >> \o EncodeHex(SubSeq(u, 12, 16))

\* "%x-%x-%x-%x-%x" of u[0:4], u[4:6], u[6:8], u[8:10], u[10:]
String(u) ==
    EncodeHex(SubSeq(u, 1, 4)) \o << 45 >> \o EncodeHex(SubSeq(u, 5, 6))
    \o << 45 >> \o EncodeHex(SubSeq(u, 7, 8)) \o << 45 >>
    \o EncodeHex(SubSeq(u, 9, 10)) \o << 45 >> \o EncodeHex(SubSeq(u, 11, 16))

\* []byte(u.String()), nil
MarshalText(u) == String(u)

\* "urn:uuid:"
UrnPrefix == << 117, 114, 110, 58, 117, 117, 105, 100, 58 >>

\* []int{8, 4, 4, 4, 12}
ByteGroups == << 8, 4, 4, 4, 12 >>

RECURSIVE DecodeGroups(_, _, _, _)
\* The loop of UnmarshalText from its g-th iteration on: text is what is
\* left of the input, b = u[off:].  A result is the error returned ("nil",
\* "hex") or "panic" for a run-time panic, the target's bytes then, the
\* iteration reached and the bytes hex.Decode stored in it.
DecodeGroups(text, u, off, g) ==
    IF g > Len(ByteGroups) THEN [err |-> "nil", u |-> u, grp |-> g, n |-> 0]
    ELSE
    LET byteGroup == ByteGroups[g] IN
    IF text.len = 0                             \* text[0]: index out of range
    THEN [err |-> "panic", u |-> u, grp |-> g, n |-> 0]
    ELSE
    LET t == IF text.arr[1] = 45 THEN SliceFrom(text, 1) ELSE text IN
    IF byteGroup > Cap(t)                       \* text[:byteGroup] past cap
    THEN [err |-> "panic", u |-> u, grp |-> g, n |-> 0]
    ELSE
    LET r == HexDecode(u, off, SliceTo(t, byteGroup)) IN
    IF r.err # "nil" THEN [err |-> r.err, u |-> r.u, grp |-> g, n |-> r.n]
    ELSE IF byteGroup > t.len                   \* text[byteGroup:] past len
    THEN [err |-> "panic", u |-> r.u, grp |-> g, n |-> r.n]
    ELSE DecodeGroups(SliceFrom(t, byteGroup), r.u, off + byteGroup \div 2, g + 1)

\* IsUrn: bytes.Equal(text[:9], []byte("urn:uuid:")), for len(text) >= 32.
HasUrnPrefix(text) == SubSeq(text.arr, 1, 9) = UrnPrefix

\* An UnmarshalText that strips no leading '{'.
UnmarshalTextNoBrace(u, text) ==
    IF text.len < 32 THEN [err |-> "length", u |-> u, grp |-> 0, n |-> 0]
    ELSE DecodeGroups(IF HasUrnPrefix(text) THEN SliceFrom(text, 9) ELSE text,
                      u, 0, 1)

\* An UnmarshalText that accepts the lengths of the four documented forms
\* only: 32, 36, 38 and 45 characters.
UnmarshalTextByLength(u, text) ==
    IF text.len \notin { 32, 36, 38, 45 }
    THEN [err |-> "length", u |-> u, grp |-> 0, n |-> 0]
    ELSE DecodeGroups(IF HasUrnPrefix(text) THEN SliceFrom(text, 9)
                      ELSE IF text.arr[1] = 123 THEN SliceFrom(text, 1)
                      ELSE text,
                      u, 0, 1)

\* (u *UUID) UnmarshalText(text): the error and the target's bytes after.
UnmarshalText(u, text) ==
    IF text.len < 32 THEN [err |-> "length", u |-> u, grp |-> 0, n |-> 0]
    ELSE DecodeGroups(IF HasUrnPrefix(text) THEN SliceFrom(text, 9)
                      ELSE IF text.arr[1] = 123 THEN SliceFrom(text, 1)
                      ELSE text,
                      u, 0, 1)

\* u.Bytes(), nil
MarshalBinary(u) == Bytes(u)

\* An UnmarshalBinary that refuses only inputs shorter than 16 bytes.
UnmarshalBinaryAtLeast(u, data) ==
    IF data.len < 16 THEN [err |-> "binlen", u |-> u, grp |-> 0, n |-> 0]
    ELSE [err |-> "nil", u |-> SubSeq(data.arr, 1, 16), grp |-> 0, n |-> 0]

\* (u *UUID) UnmarshalBinary(data)
UnmarshalBinary(u, data) ==
    IF data.len # 16 THEN [err |-> "binlen", u |-> u, grp |-> 0, n |-> 0]
    ELSE [err |-> "nil", u |-> Elems(data), grp |-> 0, n |-> 0]

\* u.String(), nil
Value(u) == String(u)

\* A Scan that takes a string of 16 characters for binary too.
ScanByLength(u, src, spare) ==
    IF src.type = "[]byte"
    THEN IF src.val.len = 16 THEN UnmarshalBinary(u, src.val)
         ELSE UnmarshalText(u, src.val)
    ELSE IF src.type = "string"
    THEN IF Len(src.val) = 16 THEN UnmarshalBinary(u, StringToBytes(src.val, spare))
         ELSE UnmarshalText(u, StringToBytes(src.val, spare))
    ELSE [err |-> "type", u |-> u, grp |-> 0, n |-> 0]

\* (u *UUID) Scan(src): src is [type, val], val a slice for []byte and a
\* string for string; spare is the capacity []byte(src) adds to a string.
Scan(u, src, spare) ==
    IF src.type = "[]byte"
    THEN IF src.val.len = 16 THEN UnmarshalBinary(u, src.val)
         ELSE UnmarshalText(u, src.val)
    ELSE IF src.type = "string"
    THEN UnmarshalText(u, StringToBytes(src.val, spare))
    ELSE [err |-> "type", u |-> u, grp |-> 0, n |-> 0]

\* Parse(s): uuid starts as the zero value; returns (uuid, err).
Parse(s, spare) == UnmarshalText(ZeroUUID, StringToBytes(s, spare))

\* bson.Binary{Kind: 0x04, Data: u.Bytes()}, nil
GetBSON(u) == [Kind |-> 4, Data |-> Bytes(u)]

\* A SetBSON that does not look at the subtype.
SetBSONAnyKind(uuid, raw) ==
    IF raw.elem # "binary" THEN [err |-> "unmarshal", u |-> uuid, grp |-> 0, n |-> 0]
    ELSE UnmarshalBinary(uuid, raw.Data)

\* (uuid *UUID) SetBSON(raw): raw.Unmarshal(bin) fails on a raw value that
\* is no binary element; raw is [elem, Kind, Data].
SetBSON(uuid, raw) ==
    IF raw.elem # "binary" THEN [err |-> "unmarshal", u |-> uuid, grp |-> 0, n |-> 0]
    ELSE IF raw.Kind # 4 THEN [err |-> "kind", u |-> uuid, grp |-> 0, n |-> 0]
    ELSE UnmarshalBinary(uuid, raw.Data)

---------------------------------------------------------------------------
(* Inputs: the bounds and the sample values the calls are made with.       *)

\* The most characters a text input is cut short by.
MaxCut == 14
\* The most characters that follow a text input's fifth group.
MaxTail == 1
\* The most spare capacity (cap - len) a converted string or a binary
\* input's array has.
MaxSpare == 1
\* The longest binary input.
MaxData == 17

\* Sample identifiers: the tests' 6ba7b810-9dad-11d1-80b4-00c04fd430c8, one
\* with every hex digit in both halves of a byte, and all ones.
TestUUID == << 107, 167, 184, 16, 157, 173, 17, 209,
               128, 180, 0, 192, 79, 212, 48, 200 >>
DigitsUUID == << 1, 35, 69, 103, 137, 171, 205, 239,
                 254, 220, 186, 152, 118, 84, 50, 16 >>
OnesUUID == [i \in 1 .. 16 |-> 255]
Idents == { TestUUID, DigitsUUID, OnesUUID }

\* What a decode target holds before the call: the zero value, or bytes
\* that differ from every sample identifier's at every index.
FilledUUID == [i \in 1 .. 16 |-> 32 + i]
Targets == { ZeroUUID, FilledUUID }

\* Bytes 6 and 8 of a draw from rand.Reader.
ByteSamples == { 0, 15, 64, 79, 128, 165, 191, 255 }
Draws == { [x EXCEPT ![7] = a, ![9] = b] :
           x \in Idents, a \in ByteSamples, b \in ByteSamples }

\* Text inputs are renderings of an identifier's 32 hex digits: a prefix
\* (none, "{", "urn:uuid:"), a hyphen or none before each of the five
\* groups, lower or upper case, then one fault at most: the last cut
\* characters dropped, or the digit at index bad.at replaced by the
\* non-hex character bad.char.  tail follows; it is part of the input
\* (inlen) or lies in the array's spare capacity behind it.
ToUpper(c) == IF c >= 97 /\ c <= 122 THEN c - 32 ELSE c

GroupStart(g) == IF g = 1 THEN 0 ELSE IF g = 2 THEN 8 ELSE IF g = 3 THEN 12
                 ELSE IF g = 4 THEN 16 ELSE IF g = 5 THEN 20 ELSE 32

Digit(h, f, i) ==
    IF f.bad.at = i THEN f.bad.char
    ELSE IF f.upper THEN ToUpper(h[i + 1]) ELSE h[i + 1]

Group(h, f, g) ==
    (IF g \in f.hyphens THEN << 45 >> ELSE << >>)
    \o [k \in 1 .. ByteGroups[g] |-> Digit(h, f, GroupStart(g) + k - 1)]

Body(h, f) ==
    f.prefix \o Group(h, f, 1) \o Group(h, f, 2) \o Group(h, f, 3)
    \o Group(h, f, 4) \o Group(h, f, 5)

Kept(h, f) == LET body == Body(h, f) IN SubSeq(body, 1, Len(body) - f.cut)

\* The input as a string, and as a byte slice.
RenderString(u, f) == Kept(EncodeHex(u), f) \o (IF f.inlen THEN f.tail ELSE << >>)
Render(u, f) ==
    LET kept == Kept(EncodeHex(u), f) IN
    [arr |-> kept \o f.tail,
     len |-> Len(kept) + (IF f.inlen THEN Len(f.tail) ELSE 0)]

NoBad == [at |-> -1, char |-> 0]
Prefixes == { << >>, << 123 >>, UrnPrefix }
Canonical == { 2, 3, 4, 5 }
SomeHyphens == { {}, Canonical, 1 .. 5 }
BadAt == { 0, 8, 13, 19, 26, 31 }
BadChars == { 119, 71, 58 }                       \* 'w', 'G', ':'
TailChars == { 125, 97, 0 }                       \* '}', 'a', NUL
Tails == { [i \in 1 .. k |-> c] : k \in 1 .. MaxTail, c \in TailChars }
NoFault == [cut |-> 0, bad |-> NoBad]
Cuts == { [cut |-> k, bad |-> NoBad] : k \in 1 .. MaxCut }
Bads == { [cut |-> 0, bad |-> [at |-> p, char |-> c]] : p \in BadAt, c \in BadChars }

Form(prefix, hyphens, upper, fault, tail, inlen) ==
    [kind |-> "rendered",
     prefix |-> prefix, hyphens |-> hyphens, upper |-> upper, cut |-> fault.cut,
     bad |-> fault.bad, tail |-> tail, inlen |-> inlen]

\* The forms UnmarshalText is called with.  Whole inputs: every prefix,
\* every placement of hyphens, either case, every tail inside or behind
\* the input.  Cut inputs: every prefix, no, the canonical or all hyphens,
\* every tail.  Inputs with a bad character: the same, in either case.
WholeForms ==
    { Form(p, hy, up, NoFault, << >>, TRUE) :
        p \in Prefixes, hy \in SUBSET (1 .. 5), up \in BOOLEAN }
    \cup { Form(p, hy, up, NoFault, t, il) :
        p \in Prefixes, hy \in SUBSET (1 .. 5), up \in BOOLEAN,
        t \in Tails, il \in BOOLEAN }
CutForms ==
    { Form(p, hy, FALSE, fa, << >>, TRUE) :
        p \in Prefixes, hy \in SomeHyphens, fa \in Cuts }
    \cup { Form(p, hy, FALSE, fa, t, il) :
        p \in Prefixes, hy \in SomeHyphens, fa \in Cuts, t \in Tails, il \in BOOLEAN }
BadForms ==
    { Form(p, hy, up, fa, << >>, TRUE) :
        p \in Prefixes, hy \in SomeHyphens, up \in BOOLEAN, fa \in Bads }
Forms == WholeForms \cup CutForms \cup BadForms

\* The forms Scan and Parse are called with: the documented ones (the
\* brace-wrapped one with its closing brace) and the compact one, whole
\* or with a fault.
DocForms ==
    { Form(p, hy, up, fa, IF p = << 123 >> THEN << 125 >> ELSE << >>, TRUE) :
        p \in Prefixes, hy \in { {}, Canonical }, up \in BOOLEAN,
        fa \in { NoFault } \cup Cuts \cup Bads }

\* n bytes of binary input taken from u, in an array of n + spare bytes.
Data(u, n, spare) ==
    [arr |-> [i \in 1 .. n + spare |-> u[((i - 1) % 16) + 1]], len |-> n]

Kinds == { 0, 3, 4, 5, 128 }
OtherTypes == { "nil", "int64", "float64", "bool", "time.Time" }

---------------------------------------------------------------------------
(* The state: two identifiers, as in the tests, and the last call.         *)
(*                                                                         *)
(* A behaviour is one use of the package, as TestUUID and                  *)
(* TestUUIDUnmarshal make it: the two identifiers hold what earlier        *)
(* decodes left in them; uuid may be replaced by New(); one read call is   *)
(* made on uuid; then one decode call is made on newUUID, on what the read *)
(* call returned or on an input of its own, or the caller stores a byte    *)
(* into the slice the read call returned.                                  *)

VARIABLES
    uuid,       \* the identifier the read calls are made on
    newUUID,    \* the identifier the decode calls are made on
    copy,       \* the receiver's copy a returned slice points into
    op,         \* the last call
    arg,        \* its input
    form,       \* how its input was made: rendered in a form, returned by
                \* the call before, or neither
    ret,        \* its first result
    err,        \* its error: "nil", an error, or "panic"
    pos,        \* [grp, n]: where a text decode stopped
    old         \* uuid and newUUID before the call

vars == << uuid, newUUID, copy, op, arg, form, ret, err, pos, old >>

NoArg == [type |-> "none"]
NoRet == [kind |-> "none"]
NoForm == [kind |-> "none"]
FromRet == [kind |-> "returned"]
NoPos == [grp |-> 0, n |-> 0]
Now == [uuid |-> uuid, newUUID |-> newUUID]

Init ==
    /\ uuid \in Idents
    /\ newUUID \in Targets
    /\ copy = ZeroUUID
    /\ op = "init"
    /\ arg = NoArg
    /\ form = NoForm
    /\ ret = NoRet
    /\ err = "nil"
    /\ pos = NoPos
    /\ old = [uuid |-> uuid, newUUID |-> newUUID]

\* uuid = New(), with d the bytes rand.Reader supplies.
CallNew ==
    /\ op = "init"
    /\ \E d \in Draws :
        /\ uuid' = New(d)
        /\ arg' = [type |-> "draw", val |-> d]
    /\ op' = "New"
    /\ form' = NoForm /\ ret' = NoRet /\ err' = "nil" /\ pos' = NoPos
    /\ old' = Now
    /\ UNCHANGED << newUUID, copy >>

ReadOps == { "Equal", "Version", "Bytes", "String", "MarshalText",
             "MarshalBinary", "Value", "GetBSON" }
SliceOps == { "Bytes", "MarshalBinary", "GetBSON" }

\* A call of a value-receiver method on uuid: the receiver is copied, the
\* method runs on the copy.
Read(name, a, r) ==
    /\ op \in { "init", "New" }
    /\ op' = name
    /\ arg' = a
    /\ ret' = r
    /\ copy' = uuid
    /\ form' = NoForm /\ err' = "nil" /\ pos' = NoPos
    /\ old' = Now
    /\ UNCHANGED << uuid, newUUID >>

CallEqual ==
    \E other \in { uuid, newUUID } :
        Read("Equal", [type |-> "uuid", val |-> other],
             [kind |-> "bool", val |-> Equal(uuid, other)])

CallVersion == Read("Version", NoArg, [kind |-> "uint", val |-> Version(uuid)])

CallBytes == Read("Bytes", NoArg, [kind |-> "slice", val |-> Bytes(uuid)])

CallString == Read("String", NoArg, [kind |-> "string", val |-> String(uuid)])

CallMarshalText ==
    Read("MarshalText", NoArg, [kind |-> "slice", val |-> SliceOf(MarshalText(uuid))])

CallMarshalBinary ==
    Read("MarshalBinary", NoArg, [kind |-> "slice", val |-> MarshalBinary(uuid)])

CallValue == Read("Value", NoArg, [kind |-> "string", val |-> Value(uuid)])

CallGetBSON == Read("GetBSON", NoArg, [kind |-> "bson", val |-> GetBSON(uuid)])

\* The array a returned slice points into, and the slice as bytes.
Deref(s) == IF s.ptr = "copy" THEN copy ELSE uuid
Returned(s) == [arr |-> SubSeq(Deref(s), 1, s.cap), len |-> s.len]

\* The caller stores byte b at index i of the slice the last call returned.
WriteReturned ==
    /\ op \in SliceOps
    /\ \E i \in 1 .. 16, b \in { 0, 255 } :
        LET s == IF op = "GetBSON" THEN ret.val.Data ELSE ret.val IN
        /\ arg' = [type |-> "store", val |-> << i, b >>]
        /\ IF s.ptr = "copy"
           THEN copy' = [copy EXCEPT ![i] = b] /\ uuid' = uuid
           ELSE uuid' = [uuid EXCEPT ![i] = b] /\ copy' = copy
    /\ op' = "write"
    /\ form' = NoForm /\ ret' = NoRet /\ err' = "nil" /\ pos' = NoPos
    /\ old' = Now
    /\ UNCHANGED newUUID

\* A decode call on newUUID with input a and outcome r.
Decode(name, a, f, r) ==
    /\ op' = name
    /\ arg' = a
    /\ form' = f
    /\ newUUID' = r.u
    /\ err' = r.err
    /\ pos' = [grp |-> r.grp, n |-> r.n]
    /\ ret' = NoRet
    /\ old' = Now
    /\ UNCHANGED << uuid, copy >>

\* newUUID.UnmarshalText(text): text a rendering of uuid in some form, or
\* the text the last call returned (with or without spare capacity).
CallUnmarshalText ==
    \/ /\ op = "init"
       /\ \E f \in Forms :
            LET text == Render(uuid, f) IN
            Decode("UnmarshalText", [type |-> "[]byte", val |-> text], f,
                   UnmarshalText(newUUID, text))
    \/ /\ op \in { "String", "Value" }
       /\ \E spare \in 0 .. MaxSpare :
            Decode("UnmarshalText",
                   [type |-> "[]byte", val |-> StringToBytes(ret.val, spare)], FromRet,
                   UnmarshalText(newUUID, StringToBytes(ret.val, spare)))
    \/ /\ op = "MarshalText"
       /\ Decode("UnmarshalText", [type |-> "[]byte", val |-> ret.val], FromRet,
                 UnmarshalText(newUUID, ret.val))

\* newUUID.UnmarshalBinary(data)
CallUnmarshalBinary ==
    \/ /\ op = "init"
       /\ \E n \in 0 .. MaxData, spare \in 0 .. MaxSpare :
            Decode("UnmarshalBinary", [type |-> "[]byte", val |-> Data(uuid, n, spare)],
                   NoForm, UnmarshalBinary(newUUID, Data(uuid, n, spare)))
    \/ /\ op \in { "Bytes", "MarshalBinary" }
       /\ Decode("UnmarshalBinary", [type |-> "[]byte", val |-> Returned(ret.val)],
                 FromRet, UnmarshalBinary(newUUID, Returned(ret.val)))

\* newUUID.SetBSON(raw)
CallSetBSON ==
    \/ /\ op = "init"
       /\ \E k \in Kinds, n \in 0 .. MaxData :
            LET raw == [elem |-> "binary", Kind |-> k, Data |-> Data(uuid, n, 0)] IN
            Decode("SetBSON", [type |-> "bson", val |-> raw], NoForm,
                   SetBSON(newUUID, raw))
    \/ /\ op = "init"
       /\ LET raw == [elem |-> "string", Kind |-> 0, Data |-> SliceOf(String(uuid))] IN
          Decode("SetBSON", [type |-> "bson", val |-> raw], NoForm,
                 SetBSON(newUUID, raw))
    \/ /\ op = "GetBSON"
       /\ LET raw == [elem |-> "binary", Kind |-> ret.val.Kind,
                      Data |-> Returned(ret.val.Data)] IN
          Decode("SetBSON", [type |-> "bson", val |-> raw], FromRet,
                 SetBSON(newUUID, raw))

\* newUUID.Scan(src)
ScanCall(src, spare, f) ==
    Decode("Scan", [type |-> src.type, val |-> src.val, spare |-> spare], f,
           Scan(newUUID, src, spare))

CallScan ==
    \/ /\ op = "init"
       /\ \E f \in DocForms :
            ScanCall([type |-> "[]byte", val |-> Render(uuid, f)], 0, f)
    \/ /\ op = "init"
       /\ \E f \in DocForms, spare \in 0 .. MaxSpare :
            ScanCall([type |-> "string", val |-> RenderString(uuid, f)], spare, f)
    \/ /\ op = "init"
       /\ \E n \in 0 .. MaxData, spare \in 0 .. MaxSpare :
            ScanCall([type |-> "[]byte", val |-> Data(uuid, n, spare)], 0, NoForm)
    \/ /\ op = "init"
       /\ \E n \in 0 .. MaxData, spare \in 0 .. MaxSpare :
            ScanCall([type |-> "string", val |-> Elems(Data(uuid, n, 0))], spare, NoForm)
    \/ /\ op = "init"
       /\ \E t \in OtherTypes :
            ScanCall([type |-> t, val |-> << >>], 0, NoForm)
    \/ /\ op = "Value"
       /\ \E spare \in 0 .. MaxSpare :
            ScanCall([type |-> "string", val |-> ret.val], spare, FromRet)

\* Parse(s): the identifier and the error it returns.
CallParse ==
    /\ op = "init"
    /\ \E f \in DocForms, spare \in 0 .. MaxSpare :
        LET s == RenderString(uuid, f)
            r == Parse(s, spare) IN
        /\ arg' = [type |-> "string", val |-> s, spare |-> spare]
        /\ form' = f
        /\ ret' = [kind |-> "uuid", val |-> r.u]
        /\ err' = r.err
        /\ pos' = [grp |-> r.grp, n |-> r.n]
    /\ op' = "Parse"
    /\ old' = Now
    /\ UNCHANGED << uuid, newUUID, copy >>

Next ==
    \/ CallNew
    \/ CallEqual
    \/ CallVersion
    \/ CallBytes
    \/ CallString
    \/ CallMarshalText
    \/ CallMarshalBinary
    \/ CallValue
    \/ CallGetBSON
    \/ WriteReturned
    \/ CallUnmarshalText
    \/ CallUnmarshalBinary
    \/ CallSetBSON
    \/ CallScan
    \/ CallParse

Spec == Init /\ [][Next]_vars

---------------------------------------------------------------------------
(* The claims.                                                             *)

\* The outcome of the last decode call.
Outcome == [err |-> err, u |-> newUUID, grp |-> pos.grp, n |-> pos.n]

\* C1: New() returns its 16-byte draw d with byte 6 replaced by
\* (d[6] AND 0x0f) OR 0x40 and byte 8 by (d[8] AND 0x3f) OR 0x80 and every
\* other byte as drawn: the high nibble of byte 6 is 4 (Version() = 4) and
\* the top two bits of byte 8 are binary 10.
C1_NewSetsVersionAndVariant ==
    op = "New" =>
        LET d == arg.val IN
        /\ uuid[7] = (d[7] % 16) + 64
        /\ uuid[9] = (d[9] % 64) + 128
        /\ \A i \in (1 .. 16) \ { 7, 9 } : uuid[i] = d[i]
        /\ uuid[7] \div 16 = 4
        /\ Version(uuid) = 4
        /\ uuid[9] \div 64 = 2

\* New() has run on a draw whose bytes 6 and 8 carry another version and
\* variant in their high bits.
C1_Witness ==
    /\ op = "New"
    /\ arg.val[7] = 165 /\ arg.val[9] = 64
    /\ uuid[7] = 69 /\ uuid[9] = 128

LowerHex == (48 .. 57) \cup (97 .. 102)

\* 36 characters: lowercase hex digits in groups of 8-4-4-4-12, a hyphen
\* between two groups.
IsCanonicalText(t) ==
    /\ Len(t) = 36
    /\ \A i \in 1 .. 36 :
        IF i \in { 9, 14, 19, 24 } THEN t[i] = 45 ELSE t[i] \in LowerHex

\* C2: String() and MarshalText() of any identifier are 36 characters of
\* lowercase hex grouped 8-4-4-4-12 with hyphens, and UnmarshalText of that
\* text into any target succeeds and leaves the target Equal to it.
C2_TextRoundTrip ==
    /\ op \in { "String", "Value" } => IsCanonicalText(ret.val)
    /\ op = "MarshalText" => ret.val.len = 36 /\ IsCanonicalText(Elems(ret.val))
    /\ (op = "UnmarshalText" /\ form.kind = "returned") =>
            err = "nil" /\ Equal(newUUID, uuid)

\* The text String() returned for an identifier New() did not make has been
\* decoded into a target that held other bytes.
C2_Witness ==
    /\ op = "UnmarshalText" /\ form.kind = "returned"
    /\ uuid = DigitsUUID
    /\ old.newUUID = FilledUUID
    /\ newUUID = DigitsUUID

\* The bare hyphenated, the brace-wrapped, the urn:uuid: and the compact
\* form, whole, in either case.
IsDocForm(f) ==
    /\ f.kind = "rendered" /\ f.cut = 0 /\ f.bad = NoBad
    /\ \/ f.prefix = << >> /\ f.hyphens \in { {}, Canonical } /\ f.tail = << >>
       \/ f.prefix = << 123 >> /\ f.hyphens = Canonical /\ f.tail = << 125 >> /\ f.inlen
       \/ f.prefix = UrnPrefix /\ f.hyphens = Canonical /\ f.tail = << >>

\* C3: UnmarshalText succeeds on the bare hyphenated, the brace-wrapped
\* '{...}', the 'urn:uuid:' and the compact form of an identifier's 32 hex
\* digits, in lower or upper case, and the target then holds exactly the
\* identifier's 16 bytes.
C3_DocumentedFormsDecode ==
    (op = "UnmarshalText" /\ IsDocForm(form)) =>
        /\ err = "nil"
        /\ newUUID = uuid
        /\ (form.prefix = << >> /\ form.hyphens = Canonical /\ ~form.upper)
              => Elems(arg.val) = String(uuid)

\* The brace-wrapped form in upper case has been decoded into a target that
\* held other bytes.
C3_Witness ==
    /\ op = "UnmarshalText" /\ IsDocForm(form)
    /\ form.prefix = << 123 >> /\ form.upper
    /\ arg.val.len = 38
    /\ uuid = DigitsUUID /\ old.newUUID = FilledUUID /\ newUUID = DigitsUUID

\* C4: every text decode returns success or an error and never aborts by
\* reading past the end of its input, whatever the input (inputs of 32 to
\* 44 characters with fewer than 32 hex digits included); an input shorter
\* than 32 characters returns a length error with the target unchanged.
C4_TextDecodeNeverAborts ==
    /\ op \in { "UnmarshalText", "Parse" } => err \in { "nil", "length", "hex" }
    /\ (op = "UnmarshalText" /\ arg.val.len < 32) =>
            err = "length" /\ newUUID = old.newUUID

\* C5: UnmarshalBinary(data) succeeds if and only if len(data) = 16, and
\* the target's bytes are then data's (so decoding what MarshalBinary
\* returned restores the identifier); for any other length it returns a
\* length-mismatch error and leaves the target's bytes unchanged.
C5_BinaryDecodeExactLength ==
    op = "UnmarshalBinary" =>
        /\ (err = "nil") <=> (arg.val.len = 16)
        /\ arg.val.len = 16 => newUUID = SubSeq(arg.val.arr, 1, 16)
        /\ arg.val.len # 16 => err = "binlen" /\ newUUID = old.newUUID
        /\ form.kind = "returned" => err = "nil" /\ newUUID = uuid

\* A 17-byte input has been refused, the target holding bytes of its own.
C5_Witness ==
    /\ op = "UnmarshalBinary"
    /\ arg.val.len = 17
    /\ err = "binlen"
    /\ old.newUUID = FilledUUID /\ newUUID = FilledUUID

\* C6: SetBSON on a binary value whose subtype is not 0x04 fails with a
\* tag-mismatch error and leaves the target unchanged, a valid 16-byte
\* payload or not; with subtype 0x04 its outcome and target are those of
\* UnmarshalBinary on the payload (a 15-byte payload fails with a length
\* error; SetBSON of what GetBSON returned restores the identifier).
C6_TypedBinaryChecksTagFirst ==
    (op = "SetBSON" /\ arg.val.elem = "binary") =>
        LET data == arg.val.Data IN
        /\ arg.val.Kind # 4 => err = "kind" /\ newUUID = old.newUUID
        /\ arg.val.Kind = 4 =>
            /\ Outcome = UnmarshalBinary(old.newUUID, data)
            /\ data.len = 16 => err = "nil" /\ newUUID = Elems(data)
            /\ data.len # 16 => err = "binlen" /\ newUUID = old.newUUID
        /\ form.kind = "returned" => err = "nil" /\ newUUID = uuid

\* A value tagged 0x05 with a 16-byte payload has been refused.
C6_Witness ==
    /\ op = "SetBSON" /\ arg.val.elem = "binary"
    /\ arg.val.Kind = 5 /\ arg.val.Data.len = 16
    /\ err = "kind"
    /\ old.newUUID = FilledUUID /\ newUUID = FilledUUID

\* C7: Scan(src) behaves as UnmarshalBinary(src) for a byte sequence of
\* length 16, as UnmarshalText(src) for a byte sequence of any other length
\* and for a string of any length (one of 16 characters too), and for every
\* other type returns a type-mismatch error with the target unchanged; Scan
\* of what Value returned restores the identifier.
C7_ScanDispatch ==
    op = "Scan" =>
        /\ (arg.type = "[]byte" /\ arg.val.len = 16) =>
                Outcome = UnmarshalBinary(old.newUUID, arg.val)
        /\ (arg.type = "[]byte" /\ arg.val.len # 16) =>
                Outcome = UnmarshalText(old.newUUID, arg.val)
        /\ arg.type = "string" =>
                /\ Outcome = UnmarshalText(old.newUUID, StringToBytes(arg.val, arg.spare))
                /\ Len(arg.val) = 16 => err = "length"
        /\ arg.type \notin { "[]byte", "string" } =>
                err = "type" /\ newUUID = old.newUUID
        /\ form.kind = "returned" => err = "nil" /\ newUUID = uuid

\* A string of 16 characters has gone to the text decode, which refused it.
C7_Witness ==
    /\ op = "Scan"
    /\ arg.type = "string" /\ Len(arg.val) = 16
    /\ err = "length"
    /\ newUUID = old.newUUID

\* The hex digits of the identifier that a rendered input holds before its
\* first character that is no hex digit: up to the bad character, or to
\* the cut.
GoodDigits(f, text) ==
    IF f.bad.at >= 0 THEN f.bad.at
    ELSE Cardinality({ i \in Len(f.prefix) + 1 .. Cap(text) - Len(f.tail) :
                       text.arr[i] # 45 })

\* The group (1..5) a digit index (0..31) lies in.
GroupOf(p) == CHOOSE g \in 1 .. 5 : GroupStart(g) <= p /\ p < GroupStart(g + 1)

\* C8 as claimed: after UnmarshalText fails on a non-hex character in group
\* k, the target bytes of the groups before k hold the decoded values and
\* every byte of group k and of the later groups holds its value from
\* before the call.
C8_FailingGroupUntouched ==
    (op = "UnmarshalText" /\ err = "hex" /\ form.kind = "rendered") =>
        LET good == GoodDigits(form, arg.val)
            first == GroupStart(GroupOf(good)) \div 2
        IN  \A i \in 1 .. 16 :
                newUUID[i] = IF i <= first THEN uuid[i] ELSE old.newUUID[i]

\* C8 as amended: after UnmarshalText fails on a non-hex character, the
\* target bytes before the byte of the offending pair of digits (those of
\* the groups before k, and those of group k's pairs before that pair)
\* hold the decoded values, and the byte of the offending pair and every
\* later byte hold their values from before the call.
C8_BytesBeforeBadPairOverwritten ==
    (op = "UnmarshalText" /\ err = "hex" /\ form.kind = "rendered") =>
        LET good == GoodDigits(form, arg.val)
            first == good \div 2
        IN  /\ good < 32
            /\ pos.grp = GroupOf(good)
            /\ GroupStart(pos.grp) \div 2 + pos.n = first
            /\ \A i \in 1 .. 16 :
                newUUID[i] = IF i <= first THEN uuid[i] ELSE old.newUUID[i]

\* The tests' "6ba7b8109dad11d180b400c04fd430cw" has been refused: the
\* bytes of the fifth group but the last are overwritten.
C8_Witness ==
    /\ op = "UnmarshalText" /\ err = "hex" /\ form.kind = "rendered"
    /\ form.bad = [at |-> 31, char |-> 119]
    /\ form.prefix = << >> /\ form.hyphens = {}
    /\ uuid = TestUUID /\ old.newUUID = FilledUUID
    /\ SubSeq(newUUID, 11, 15) = SubSeq(TestUUID, 11, 15)
    /\ newUUID[16] = FilledUUID[16]

\* C9: text decode examines no character after the fifth group and checks
\* no hyphen's place: a whole input decodes to the identifier whatever
\* follows it (a '}' with or without a leading '{', or anything else) and
\* with a hyphen or none before each of the five groups, the first too;
\* and where the input without what follows it decodes, the input decodes
\* to the same value.
C9_TailAndHyphensIgnored ==
    (op = "UnmarshalText" /\ form.kind = "rendered") =>
        /\ (form.cut = 0 /\ form.bad = NoBad) => err = "nil" /\ newUUID = uuid
        /\ (form.tail # << >> /\ form.inlen) =>
            LET short == UnmarshalText(old.newUUID,
                                       Render(uuid, [form EXCEPT !.tail = << >>]))
            IN  short.err = "nil" => err = "nil" /\ newUUID = short.u

\* An input with no leading '{', a hyphen before the first and the third
\* group only and a trailing '}' has been decoded.
C9_Witness ==
    /\ op = "UnmarshalText" /\ form.kind = "rendered"
    /\ form.prefix = << >> /\ form.hyphens = { 1, 3 }
    /\ form.tail = << 125 >> /\ form.inlen
    /\ form.cut = 0 /\ form.bad = NoBad
    /\ err = "nil"
    /\ old.newUUID = FilledUUID /\ newUUID = uuid

\* C10: the slices Bytes(), MarshalBinary() and GetBSON() return hold the
\* identifier's 16 bytes in an array of their own, so a store into one
\* never changes the identifier; and Equal, Version, String, MarshalText and
\* Value leave the identifier's bytes unchanged.
C10_ReadsDoNotAliasOrMutate ==
    /\ op \in ReadOps => uuid = old.uuid /\ newUUID = old.newUUID
    /\ op \in SliceOps =>
        LET s == IF op = "GetBSON" THEN ret.val.Data ELSE ret.val IN
        /\ s.ptr # "uuid"
        /\ Elems(Returned(s)) = uuid
    /\ op = "write" => uuid = old.uuid /\ newUUID = old.newUUID

\* A byte has been stored into the slice Bytes() returned: the copy holds
\* it, the identifier does not.
C10_Witness ==
    /\ op = "write"
    /\ arg.val = << 1, 0 >>
    /\ uuid = OnesUUID
    /\ copy[1] = 0
    /\ uuid[1] = 255

=============================================================================
